---- MODULE Spec2Model ----
(***************************************************************************)
(* Model of the Logseq "quick query" plugin (src/index.js): the tag        *)
(* filter, the ancestor walk, the causal-dependency classifier and the     *)
(* handlers that render a query block.                                     *)
(*                                                                         *)
(* Three specifications share the variables:                               *)
(*   SpecClassify  getDependentTaskIDs / compareTasks on a drawn forest    *)
(*   SpecWalk      getAncestors, one parent lookup per step, on any        *)
(*                 parent map (cycles and dangling links included)         *)
(*   Spec          the handlers of one query block, interleaved at their   *)
(*                 awaits                                                  *)
(*   SpecSequential  the same handlers, each started after the one before  *)
(*                 has ended, any number of times                          *)
(***************************************************************************)
EXTENDS Integers, Sequences, FiniteSets, TLC

\* ------------------------------------------------------------------ bounds
\* Number of blocks (pages included) of a drawn forest.
MaxNodes == 5
\* Longest task list handed to getDependentTaskIDs.
MaxTasks == 3
\* Number of blocks of a store whose parent links are arbitrary (SpecWalk).
MaxWalkNodes == 3
\* Spec: Document Store reads that fail in one behaviour.
MaxFailures == 1
\* Spec: largest value of the maxTasks setting.
MaxSetting == 1
\* SpecSequential: longest selection a selectTag may extend.
MaxSelected == 2

VARIABLES
  \* ---- Document Store (read-only for the classifier)
  parentOf,          \* block id -> id of block.parent, NoParent for a page
  ordered,           \* block id -> isOrderedBlock's property is "number"
  \* ---- SpecClassify: one call of getDependentTaskIDs and lines 219-222
  tasksWithTags,     \* the input list (index.js:204)
  comparisons,       \* <<i, j>> -> value compareTasks returned for the pair
  dependentTaskIDs,  \* the returned set (index.js:276)
  filteredTasks,     \* index.js:220
  clsPc,             \* "start" | "done" | "thrown"
  \* ---- SpecWalk: one call of getAncestors (index.js:421-431)
  walkTask,          \* the argument, block
  currentBlock,      \* index.js:423
  walkAncestors,     \* index.js:422, ancestors
  walkPc,            \* "loop" | "returned" | "thrown"
  \* ---- Spec: the store and settings the handlers read
  pathRefs,          \* task id -> set of tag ids in task["path-refs"]
  maxTasks,          \* logseq.settings.maxTasks
  tagsToIgnore,      \* logseq.settings.tagsToIgnore.split(",")
  namespacesToIgnore, \* logseq.settings.namespacesToIgnore.split(",")
  tagsToHide,        \* logseq.settings.tagsToHide.toLowerCase().split(",")
  \* ---- Spec: the query block and its slot
  blockContent,        \* the directive {{renderer :qquery, ...}}, in pieces
  blockChildren,     \* the block's children: <<[id, ref]>>, ref the task a
                     \* child embeds as ((uuid)), 0 when it embeds none
  ui,                \* template last given to provideUI for the slot
  \* ---- Spec: the handler invocations
  inv,               \* invocation -> its position and local variables
  failures,          \* store reads that have failed so far
  overlapped         \* some invocation started while another was in progress

storeVars == <<parentOf, ordered>>
clsVars == <<tasksWithTags, comparisons, dependentTaskIDs, filteredTasks, clsPc>>
walkVars == <<walkTask, currentBlock, walkAncestors, walkPc>>

settingVars ==
  <<pathRefs, maxTasks, tagsToIgnore, namespacesToIgnore, tagsToHide>>
queryVars == <<blockContent, blockChildren, ui, inv, failures, overlapped>>

vars == <<storeVars, clsVars, walkVars, settingVars, queryVars>>

\* The variables of a specification that is not the one running.
ClassifyIdle ==
  /\ tasksWithTags = <<>> /\ comparisons = <<>> /\ dependentTaskIDs = {}
  /\ filteredTasks = <<>> /\ clsPc = "idle"

WalkIdle ==
  /\ walkTask = 0 /\ currentBlock = 0 /\ walkAncestors = <<>>
  /\ walkPc = "idle"

QueryIdle ==
  /\ pathRefs = <<>> /\ maxTasks = 0 /\ tagsToIgnore = <<>>
  /\ namespacesToIgnore = <<>> /\ tagsToHide = <<>>
  /\ blockContent = <<>> /\ blockChildren = <<>>
  /\ ui = "none" /\ inv = <<>> /\ failures = 0
  /\ overlapped = FALSE

\* ------------------------------------------------------------ the store
Nodes == 1..MaxNodes
NoParent == 0

\* isPage: a page is a block without a parent.
isPage(b) == parentOf[b] = NoParent

\* The blocks of a forest are numbered in document order (a block's id is
\* larger than its parent's, and its siblings to the left and their subtrees
\* come before it), so block.children lists the children by ascending id.
\* Every finite ordered forest has exactly one such numbering, and the code
\* reads ids only to compare them for equality.
RECURSIVE RightmostPath(_, _)
RightmostPath(p, n) ==
  IF n = NoParent THEN {} ELSE {n} \cup RightmostPath(p, p[n])

IsDocumentOrder(p) ==
  /\ p[1] = NoParent
  /\ \A n \in Nodes \ {1} : p[n] = NoParent \/ p[n] \in RightmostPath(p, n - 1)

Forests == {p \in [Nodes -> Nodes \cup {NoParent}] :
              (\A n \in Nodes : p[n] < n) /\ IsDocumentOrder(p)}

RECURSIVE SortedSeq(_)
SortedSeq(S) ==
  IF S = {} THEN <<>>
  ELSE LET m == CHOOSE x \in S : \A y \in S : x <= y
       IN <<m>> \o SortedSeq(S \ {m})

\* block.children.map((c) => c[1]); a block's uuid is modelled by its id.
children(b) == SortedSeq({n \in DOMAIN parentOf : parentOf[n] = b})

\* Array.prototype.indexOf, 0-based, -1 when absent.
RECURSIVE indexOfFrom(_, _, _)
indexOfFrom(s, x, k) ==
  IF k > Len(s) THEN -1
  ELSE IF s[k] = x THEN k - 1
  ELSE indexOfFrom(s, x, k + 1)

indexOf(s, x) == indexOfFrom(s, x, 1)

\* getAncestors on a forest: the parent chain, nearest first, page last.
RECURSIVE getAncestors(_)
getAncestors(b) ==
  IF isPage(b) THEN <<>>
  ELSE <<parentOf[b]>> \o getAncestors(parentOf[b])

\* task.page.id: the page the block is on.
RECURSIVE pageId(_)
pageId(b) == IF isPage(b) THEN b ELSE pageId(parentOf[b])

isOrderedBlock(b) == ordered[b]

\* ------------------------------------------------------- compareTasks
SeqToSet(s) == {s[k] : k \in 1..Len(s)}

\* Value standing for the Error thrown at index.js:387.
ProgrammingError == 99

\* The labelled loops of index.js:364-379. The result is
\* <<nearestCommonAncestor, furthestUncommonAncestor1,
\* furthestUncommonAncestor2>>, NoParent standing for null.
RECURSIVE innerLoop(_, _, _, _)
innerLoop(c1, anc2, j, fua2) ==
  IF j > Len(anc2) THEN <<FALSE, fua2>>
  ELSE IF c1 = anc2[j] THEN <<TRUE, fua2>>
  ELSE innerLoop(c1, anc2, j + 1, anc2[j])

RECURSIVE outerLoop(_, _, _, _, _)
outerLoop(anc1, anc2, i, fua1, t2) ==
  IF i > Len(anc1) THEN <<NoParent, fua1, t2>>
  ELSE LET r == innerLoop(anc1[i], anc2, 1, t2)
       IN IF r[1] THEN <<anc1[i], fua1, r[2]>>
          ELSE outerLoop(anc1, anc2, i + 1, anc1[i], t2)

compareTasksMutNoContainment(t1, t2, ancestors) ==
  IF pageId(t1) # pageId(t2) THEN 0
  ELSE
    LET f == outerLoop(ancestors[t1], ancestors[t2], 1, t1, t2)
    IN IF f[1] = NoParent THEN ProgrammingError
       ELSE IF isOrderedBlock(f[2]) /\ isOrderedBlock(f[3])
            THEN IF indexOf(children(f[1]), f[2]) < indexOf(children(f[1]), f[3])
                 THEN -1 ELSE 1
            ELSE 0

compareTasksMutIndexOrder(t1, t2, ancestors) ==
  IF pageId(t1) # pageId(t2) THEN 0
  ELSE IF t2 \in SeqToSet(ancestors[t1]) THEN -1
  ELSE IF t1 \in SeqToSet(ancestors[t2]) THEN 1
  ELSE
    LET f == outerLoop(ancestors[t1], ancestors[t2], 1, t1, t2)
    IN IF f[1] = NoParent THEN ProgrammingError
       ELSE IF isOrderedBlock(f[2]) /\ isOrderedBlock(f[3])
            THEN IF indexOf(children(f[1]), f[2]) > indexOf(children(f[1]), f[3])
                 THEN -1 ELSE 1
            ELSE 0

compareTasksMutEitherOrdered(t1, t2, ancestors) ==
  IF pageId(t1) # pageId(t2) THEN 0
  ELSE IF t2 \in SeqToSet(ancestors[t1]) THEN -1
  ELSE IF t1 \in SeqToSet(ancestors[t2]) THEN 1
  ELSE
    LET f == outerLoop(ancestors[t1], ancestors[t2], 1, t1, t2)
    IN IF f[1] = NoParent THEN ProgrammingError
       ELSE IF isOrderedBlock(f[2]) \/ isOrderedBlock(f[3])
            THEN IF indexOf(children(f[1]), f[2]) < indexOf(children(f[1]), f[3])
                 THEN -1 ELSE 1
            ELSE 0

\* Negative: t1 is a dependency of t2; positive: t1 depends on t2; 0: neither.
compareTasks(t1, t2, ancestors) ==
  IF pageId(t1) # pageId(t2) THEN 0
  ELSE IF t2 \in SeqToSet(ancestors[t1]) THEN -1
  ELSE IF t1 \in SeqToSet(ancestors[t2]) THEN 1
  ELSE
    LET f == outerLoop(ancestors[t1], ancestors[t2], 1, t1, t2)
    IN IF f[1] = NoParent THEN ProgrammingError
       ELSE IF isOrderedBlock(f[2]) /\ isOrderedBlock(f[3])
            THEN IF indexOf(children(f[1]), f[2]) < indexOf(children(f[1]), f[3])
                 THEN -1 ELSE 1
            ELSE 0

\* ------------------------------------------------- getDependentTaskIDs
\* The ancestors map built by index.js:265-272.
ancestorsOf(tasks) == [t \in SeqToSet(tasks) |-> getAncestors(t)]

Pairs(tasks) == {q \in (1..Len(tasks)) \X (1..Len(tasks)) : q[1] < q[2]}

\* What the loop body (index.js:279-300) adds for the pair t1 = tasks[i],
\* t2 = tasks[j], given the value compareTasks returned.
pairAddsMutSwapped(t1, t2, comparison) ==
  IF comparison < 0 THEN {t1}
  ELSE IF comparison > 0 THEN {t2}
  ELSE {}

pairAddsMutBoth(t1, t2, comparison) ==
  IF comparison # 0 THEN {t1, t2} ELSE {}

pairAdds(t1, t2, comparison) ==
  IF comparison < 0 THEN {t2}
  ELSE IF comparison > 0 THEN {t1}
  ELSE {}

compareAll(tasks) ==
  [q \in Pairs(tasks) |->
     compareTasks(tasks[q[1]], tasks[q[2]], ancestorsOf(tasks))]

getDependentTaskIDs(tasks, cmp) ==
  UNION {pairAdds(tasks[q[1]], tasks[q[2]], cmp[q]) : q \in Pairs(tasks)}

\* tasksWithTags.filter((task) => !dependentTaskIDs.has(task.id))
withoutDependents(tasks, deps) ==
  LET keep(t) == t \notin deps IN SelectSeq(tasks, keep)

\* ----------------------------------------------------------- SpecClassify
\* Lists of distinct tasks; a task is a block that is not a page.
TaskLists(p) ==
  LET blocks == {n \in Nodes : p[n] # NoParent}
  IN UNION {{s \in [1..k -> blocks] : \A a, b \in 1..k : a # b => s[a] # s[b]}
              : k \in 0..MaxTasks}

InitClassify ==
  /\ parentOf \in Forests
  /\ ordered \in [Nodes -> BOOLEAN]
  /\ \A n \in Nodes : parentOf[n] = NoParent => ~ordered[n]
  /\ tasksWithTags \in TaskLists(parentOf)
  /\ comparisons = <<>>
  /\ dependentTaskIDs = {}
  /\ filteredTasks = <<>>
  /\ clsPc = "start"
  /\ WalkIdle
  /\ QueryIdle

\* index.js:219-222, with the call of getDependentTaskIDs (263-307).
Classify ==
  /\ clsPc = "start"
  /\ LET cmp == compareAll(tasksWithTags)
     IN IF \E q \in DOMAIN cmp : cmp[q] = ProgrammingError
        THEN /\ clsPc' = "thrown"
             /\ UNCHANGED <<comparisons, dependentTaskIDs, filteredTasks>>
        ELSE /\ clsPc' = "done"
             /\ comparisons' = cmp
             /\ dependentTaskIDs' = getDependentTaskIDs(tasksWithTags, cmp)
             /\ filteredTasks' =
                  withoutDependents(tasksWithTags,
                                    getDependentTaskIDs(tasksWithTags, cmp))
  /\ UNCHANGED <<storeVars, tasksWithTags, walkVars, settingVars, queryVars>>

NextClassify == Classify

SpecClassify == InitClassify /\ [][NextClassify]_vars

\* --------------------------------------------------------------- SpecWalk
\* getAncestors, one awaited parent lookup per step, on a store whose parent
\* links are arbitrary: a link may close a cycle or name a block that the
\* store does not hold.
WalkNodes == 1..MaxWalkNodes

\* An id that is the id of no block and no page.
DanglingId == MaxWalkNodes + 1

\* The walk is cut off once it has made this many lookups: two more than a
\* walk that visits every block once can make.
WalkCap == MaxWalkNodes + 2

InitWalk ==
  /\ parentOf \in [WalkNodes -> WalkNodes \cup {NoParent, DanglingId}]
  /\ ordered = [n \in WalkNodes |-> FALSE]
  /\ walkTask \in WalkNodes
  /\ currentBlock = walkTask
  /\ walkAncestors = <<>>
  /\ walkPc = "loop"
  /\ ClassifyIdle
  /\ QueryIdle

\* The value of (await getBlock(id)) || (await getPage(id)): the block, or
\* null (NoParent) when the store holds neither.
lookup(id) == IF id \in DOMAIN parentOf THEN id ELSE NoParent

\* One iteration of the while loop (index.js:424-429). After pushing null
\* the loop condition isPage(null) reads null.parent and throws.
WalkStep ==
  /\ walkPc = "loop"
  /\ ~isPage(currentBlock)
  /\ Len(walkAncestors) < WalkCap
  /\ LET next == lookup(parentOf[currentBlock])
     IN /\ walkAncestors' = Append(walkAncestors, next)
        /\ IF next = NoParent
           THEN walkPc' = "thrown" /\ UNCHANGED currentBlock
           ELSE currentBlock' = next /\ UNCHANGED walkPc
  /\ UNCHANGED <<storeVars, clsVars, walkTask, settingVars, queryVars>>

\* The awaited lookup rejects: nothing in getAncestors catches it.
WalkLookupFails ==
  /\ walkPc = "loop"
  /\ ~isPage(currentBlock)
  /\ Len(walkAncestors) < WalkCap
  /\ walkPc' = "thrown"
  /\ UNCHANGED <<storeVars, clsVars, walkTask, currentBlock, walkAncestors,
                 settingVars, queryVars>>

\* index.js:430
WalkReturn ==
  /\ walkPc = "loop"
  /\ isPage(currentBlock)
  /\ walkPc' = "returned"
  /\ UNCHANGED <<storeVars, clsVars, walkTask, currentBlock, walkAncestors,
                 settingVars, queryVars>>

NextWalk == WalkStep \/ WalkLookupFails \/ WalkReturn

SpecWalk == InitWalk /\ [][NextWalk]_vars

\* ------------------------------------------------------------------- Spec
\* The handlers of one query block. Each action is the stretch of a handler
\* between two awaits. The tasks, tags, parent links and pages the query
\* reads are not changed by the plugin, so no step of another invocation can
\* change what getTagsAndTasks computes between two of its awaits, and its
\* reads (getTasks, getTags, getPage, getPagesFromNamespace, the parent
\* lookups of getAncestors) are taken in one step, Query. For the same reason
\* the getBlock of updateRendererQuery, whose result only has to match the
\* directive's pattern, is taken together with the step that calls it.

\* Two handler invocations, each started once: one after the other, or the
\* second while the first is suspended at an await.
Invocations == {"p", "q"}

\* The pages that serve as tags.
Tags == {[id |-> 11, name |-> "a"], [id |-> 12, name |-> "b"]}
TagIds == {t.id : t \in Tags}
TagNames == {t.name : t \in Tags}

\* The store the handlers query: three blocks, in every forest they can form.
QueryNodes == {1, 2, 3}

QueryForests ==
  {p \in [QueryNodes -> QueryNodes \cup {NoParent}] :
     /\ \A n \in QueryNodes : p[n] < n
     /\ p[1] = NoParent
     /\ \A n \in QueryNodes \ {1} :
          p[n] = NoParent \/ p[n] \in RightmostPath(p, n - 1)}

\* Block n has a sibling block: the blocks of a list are numbered together.
HasSibling(p, n) ==
  p[n] # NoParent /\ \E m \in DOMAIN p : m # n /\ p[m] = p[n]

\* The path-refs a task may have: tag a alone, or both tags.
RefSets == {{11}, {11, 12}}

\* The blocks with a TODO or DOING marker: every block that is not a page.
doableTasks == {n \in DOMAIN parentOf : parentOf[n] # NoParent}

\* What datascriptQuery returns for the query of getTasks.
scanTasks == SortedSeq(doableTasks)

\* What datascriptQuery returns for the query of getTags: the tags in the
\* path-refs of some doable task.
RECURSIVE SortedById(_)
SortedById(S) ==
  IF S = {} THEN <<>>
  ELSE LET m == CHOOSE x \in S : \A y \in S : x.id <= y.id
       IN <<m>> \o SortedById(S \ {m})

scanTags ==
  SortedById({t \in Tags : \E n \in doableTasks : t.id \in pathRefs[n]})

\* try { ret = await datascriptQuery } catch (e) { console.error(e) } wraps the
\* scans of getTasks and getTags; the other reads are awaited bare.
catchesFailureMutNoCatch(read) == FALSE

catchesFailure(read) == read \in {"getTasks", "getTags"}

\* logseq.Editor.getPage(name): the page of that name, or none (null).
getPage(name) == {t \in Tags : t.name = name}

\* logseq.Editor.getPagesFromNamespace(ns): the ids of the pages under it.
getPagesFromNamespace(ns) == IF ns = "ns" THEN {1} ELSE {}

\* generateRendererQuery: the directive text, as the list of its pieces.
RECURSIVE join(_, _)
join(names, sep) ==
  IF Len(names) = 0 THEN <<>>
  ELSE IF Len(names) = 1 THEN <<names[1]>>
  ELSE <<names[1], sep>> \o join(Tail(names), sep)

generateRendererQuery(tagNames) ==
  IF Len(tagNames) = 0 THEN <<"{{renderer :qquery">>  \o <<"}}">>
  ELSE <<"{{renderer :qquery", ", ">> \o join(tagNames, ", ") \o <<"}}">>

\* parseRendererQuery on a directive: match[1] is what lies between the
\* optional comma with its blanks and the closing braces; an empty match[1]
\* gives [], otherwise it is split at the commas and each part trimmed.
RECURSIVE splitTrim(_)
splitTrim(pieces) ==
  IF Len(pieces) = 0 THEN <<>>
  ELSE IF pieces[1] = ", " THEN splitTrim(Tail(pieces))
  ELSE <<pieces[1]>> \o splitTrim(Tail(pieces))

parseRendererQuery(directive) ==
  LET body == SubSeq(directive, 2, Len(directive) - 1)
      match1 == IF Len(body) > 0 /\ body[1] = ", " THEN Tail(body) ELSE body
  IN IF \A k \in 1..Len(match1) : match1[k] = "" THEN <<>>
     ELSE IF match1[1] = "" THEN <<"">> \o splitTrim(Tail(match1))
     ELSE splitTrim(match1)

\* selectedTagNames.map(find).filter(!!tag): the first tag of each name.
RECURSIVE selectedTagsOf(_, _)
selectedTagsOf(names, tags) ==
  IF Len(names) = 0 THEN <<>>
  ELSE LET hits == {k \in 1..Len(tags) : tags[k].name = names[1]}
           first == CHOOSE k \in hits : \A m \in hits : k <= m
       IN (IF hits = {} THEN <<>> ELSE <<tags[first]>>)
          \o selectedTagsOf(Tail(names), tags)

\* index.js:204-216
filterTasksMutSomeTag(tasks, selTags, ignoredTags, ignoredPages) ==
  LET keep(t) ==
        /\ pageId(t) \notin ignoredPages
        /\ (Len(selTags) > 0 =>
              \E k \in 1..Len(selTags) : selTags[k].id \in pathRefs[t])
        /\ \A g \in ignoredTags : g.id \notin pathRefs[t]
  IN SelectSeq(tasks, keep)

filterTasks(tasks, selTags, ignoredTags, ignoredPages) ==
  LET keep(t) ==
        /\ pageId(t) \notin ignoredPages
        /\ \A k \in 1..Len(selTags) : selTags[k].id \in pathRefs[t]
        /\ \A g \in ignoredTags : g.id \notin pathRefs[t]
  IN SelectSeq(tasks, keep)

\* task["properties-order"]: the tasks of the store carry no properties.
propertiesOrder(task) == <<>>

\* tag["journal?"]: the tags of the store are not journal pages.
isJournal(tag) == FALSE

\* a.name.localeCompare(b.name) < 0
nameBefore(a, b) ==
  LET rank(name) == IF name = "" THEN 0 ELSE IF name = "a" THEN 1 ELSE 2
  IN rank(a.name) < rank(b.name)

\* remainingTags.sort(...): insertion of each tag before the first one that
\* does not come before it.
RECURSIVE sortByName(_)
sortByName(tags) ==
  IF Len(tags) = 0 THEN <<>>
  ELSE LET rest == sortByName(Tail(tags))
           before(t) == nameBefore(t, Head(tags))
           notBefore(t) == ~nameBefore(t, Head(tags))
       IN SelectSeq(rest, before) \o <<Head(tags)>> \o SelectSeq(rest, notBefore)

\* index.js:226-256: the tags offered for selection.
remainingTagsOfMutKeepSelected(tags, selectedTagNames, filtered) ==
  LET taskProperties ==
        UNION {SeqToSet(propertiesOrder(filtered[k])) : k \in 1..Len(filtered)}
      keep(tag) ==
        /\ tag.name \notin taskProperties
        /\ tag.name \notin {"todo", "doing"}
        /\ ~isJournal(tag)
        /\ tag.name \notin SeqToSet(tagsToHide)
        /\ \E k \in 1..Len(filtered) : tag.id \in pathRefs[filtered[k]]
  IN sortByName(SelectSeq(tags, keep))

remainingTagsOf(tags, selectedTagNames, filtered) ==
  LET taskProperties ==
        UNION {SeqToSet(propertiesOrder(filtered[k])) : k \in 1..Len(filtered)}
      keep(tag) ==
        /\ tag.name \notin SeqToSet(selectedTagNames)
        /\ tag.name \notin taskProperties
        /\ tag.name \notin {"todo", "doing"}
        /\ ~isJournal(tag)
        /\ tag.name \notin SeqToSet(tagsToHide)
        /\ \E k \in 1..Len(filtered) : tag.id \in pathRefs[filtered[k]]
  IN sortByName(SelectSeq(tags, keep))

\* What getTagsAndTasks hands to its caller when it returns: index.js:258
\* always builds the object {selectedTags, remainingTags, filteredTasks}.
returnValue(candidates) == "triple"

\* if (!tagsAndTasks) return renderFailure(uuid, slot)
isFalsy(value) == value = "nothing"

\* ------------------------------------------------------ an invocation
IdleInvocation ==
  [pc |-> "idle", kind |-> "none", tagName |-> "",
   selectedTagNames |-> <<>>,
   tasks |-> <<>>, tags |-> <<>>, selectedTags |-> <<>>,
   tasksWithTags |-> <<>>, filteredTasks |-> <<>>, remainingTags |-> <<>>,
   failed |-> {}, tagsAndTasks |-> "pending",
   children |-> <<>>, i |-> 0, embeddedTasks |-> {}, taskCount |-> 0,
   j |-> 0, inserted |-> <<>>, outcome |-> "none"]

\* An invocation that returned earlier: its local variables are gone.
Returned == [IdleInvocation EXCEPT !.pc = "returned"]

InProgress(r) == r.pc \notin {"idle", "done", "thrown", "returned"}

Kinds == {"reload", "selectTag", "unselectTag", "macro"}

Init ==
  /\ parentOf \in QueryForests
  /\ ordered \in {[n \in QueryNodes |-> FALSE],
                  [n \in QueryNodes |-> HasSibling(parentOf, n)]}
  /\ pathRefs \in [{n \in QueryNodes : parentOf[n] # NoParent} -> RefSets]
  /\ maxTasks \in 1..MaxSetting
  /\ tagsToIgnore \in {<<"">>, <<"b">>}
  /\ namespacesToIgnore \in {<<"">>}
  /\ tagsToHide \in IF tagsToIgnore = <<"">> THEN {<<"">>, <<"a">>}
                    ELSE {<<"">>}
  /\ blockContent = generateRendererQuery(<<>>)
  /\ blockChildren = <<>>
  /\ ui = "none"
  /\ inv = [p \in Invocations |-> IdleInvocation]
  /\ failures = 0
  /\ overlapped = FALSE
  /\ ClassifyIdle
  /\ WalkIdle

\* The step of invocation p leaves it as r2; a handler that ends by
\* renderFailure or renderTagListing gives the slot its template.
Commit(p, r2) ==
  /\ inv' = [inv EXCEPT ![p] = r2]
  /\ ui' = IF r2.pc = "done" THEN r2.outcome ELSE ui

\* A click on the reload button or on a tag button, or the host slotting the
\* macro: the handler runs up to its first await (parseRendererQuery's
\* getBlock). The buttons were drawn by an earlier render and may be stale.
Start(p, kind, name) ==
  /\ inv[p].pc = "idle"
  /\ p = "q" => inv["p"].pc # "idle"
  /\ kind \in {"selectTag", "unselectTag"} <=> name \in TagNames
  /\ overlapped' = (overlapped \/ \E o \in Invocations : InProgress(inv[o]))
  /\ inv' = [o \in Invocations |->
               IF o = p
               THEN [IdleInvocation EXCEPT !.pc = "parse", !.kind = kind,
                                           !.tagName = name]
               ELSE IF inv[o].pc \in {"done", "thrown"}
               THEN Returned
               ELSE inv[o]]
  /\ UNCHANGED <<storeVars, clsVars, walkVars, settingVars, blockContent,
                 blockChildren, ui, failures>>

\* selectedTagNames.splice(selectedTagNames.indexOf(tagName), 1): a start of
\* -1 counts from the end of the array.
splice1(names, name) ==
  LET at == indexOf(names, name)
      k == IF at >= 0 THEN at + 1 ELSE Len(names)
  IN IF Len(names) = 0 THEN names
     ELSE SubSeq(names, 1, k - 1) \o SubSeq(names, k + 1, Len(names))

\* parseRendererQuery returns; selectTag and unselectTag change the list and
\* call updateRendererQuery, which awaits getBlock.
Parse(p) ==
  /\ inv[p].pc = "parse"
  /\ LET r == inv[p]
         names == parseRendererQuery(blockContent)
     IN Commit(p,
          IF r.kind = "selectTag"
          THEN [r EXCEPT !.selectedTagNames = Append(names, r.tagName),
                         !.pc = "updateBlock"]
          ELSE IF r.kind = "unselectTag"
          THEN [r EXCEPT !.selectedTagNames = splice1(names, r.tagName),
                         !.pc = "updateBlock"]
          ELSE [r EXCEPT !.selectedTagNames = names, !.pc = "query"])
  /\ UNCHANGED <<storeVars, clsVars, walkVars, settingVars, blockContent,
                 blockChildren, failures, overlapped>>

\* updateRendererQuery, index.js:146-150: updateBlock writes the directive
\* made from this invocation's list.
UpdateBlock(p) ==
  /\ inv[p].pc = "updateBlock"
  /\ blockContent' = generateRendererQuery(inv[p].selectedTagNames)
  /\ Commit(p, [inv[p] EXCEPT !.pc = "query"])
  /\ UNCHANGED <<storeVars, clsVars, walkVars, settingVars, blockChildren,
                 failures, overlapped>>

\* The reads getTagsAndTasks makes besides the two scans (index.js:186-198
\* and getAncestors): a parent lookup is made only for a task that passed
\* the filter.
lookupsMade(candidates) ==
  (IF Len(tagsToIgnore) > 0 THEN {"getPage"} ELSE {})
    \cup (IF Len(namespacesToIgnore) > 0 THEN {"getPagesFromNamespace"} ELSE {})
    \cup (IF Len(candidates) > 0 THEN {"getBlock(parent)"} ELSE {})

Reads == {"getTasks", "getTags", "getPage", "getPagesFromNamespace",
          "getBlock(parent)"}

\* getTagsAndTasks, index.js:177-259, with the reads in `bad` failing. A scan
\* that fails is caught inside getTasks / getTags and gives []. For
\* renderComponent the next await is getBlock(uuid); the macro handler
\* renders at once.
Query(p, bad) ==
  /\ inv[p].pc = "query"
  /\ failures + Cardinality(bad) <= MaxFailures
  /\ failures' = failures + Cardinality(bad)
  /\ LET r == inv[p]
         tasks == IF "getTasks" \in bad THEN <<>> ELSE scanTasks
         tags == IF "getTags" \in bad THEN <<>> ELSE scanTags
         selTags == selectedTagsOf(r.selectedTagNames, tags)
         ignoredTags ==
           IF "getPage" \in bad THEN {}
           ELSE UNION {getPage(tagsToIgnore[k]) : k \in 1..Len(tagsToIgnore)}
         ignoredPages ==
           IF "getPagesFromNamespace" \in bad THEN {}
           ELSE UNION {getPagesFromNamespace(namespacesToIgnore[k]) :
                         k \in 1..Len(namespacesToIgnore)}
         candidates == filterTasks(tasks, selTags, ignoredTags, ignoredPages)
         cmp == compareAll(candidates)
         deps == getDependentTaskIDs(candidates, cmp)
         value == returnValue(candidates)
         r1 == [r EXCEPT !.tasks = tasks, !.tags = tags,
                         !.selectedTags = selTags,
                         !.tasksWithTags = candidates,
                         !.failed = bad]
         filtered == withoutDependents(candidates, deps)
         r2 == [r1 EXCEPT !.filteredTasks = filtered,
                          !.remainingTags =
                            remainingTagsOf(tags, r.selectedTagNames, filtered),
                          !.tagsAndTasks = value]
     IN /\ bad \subseteq {"getTasks", "getTags"} \cup lookupsMade(candidates)
        /\ Commit(p,
             IF \/ \E read \in bad : ~catchesFailure(read)
                \/ \E q \in DOMAIN cmp : cmp[q] = ProgrammingError
             THEN [r1 EXCEPT !.tagsAndTasks = "thrown", !.pc = "thrown",
                             !.outcome = "thrown"]
             ELSE IF isFalsy(value)
             THEN [r2 EXCEPT !.pc = "done", !.outcome = "failure"]
             ELSE IF r.kind = "macro"
             THEN [r2 EXCEPT !.pc = "done", !.outcome = "listing"]
             ELSE [r2 EXCEPT !.pc = "getBlock"])
  /\ UNCHANGED <<storeVars, clsVars, walkVars, settingVars, blockContent,
                 blockChildren, overlapped>>

\* ------------------------------------------------------ renderComponent
Min(S) == CHOOSE x \in S : \A y \in S : x <= y

\* The second loop (index.js:536-549) from index r.j on: the next task to
\* insert, or the end of renderComponent (renderTagListing).
insertOrFinishMutNoCap(r) ==
  LET todo == {k \in r.j..Len(r.filteredTasks) :
                 r.filteredTasks[k] \notin r.embeddedTasks}
  IN IF todo = {}
     THEN [r EXCEPT !.pc = "done", !.outcome = "listing"]
     ELSE [r EXCEPT !.pc = "insert", !.j = Min(todo)]

insertOrFinish(r) ==
  LET todo == {k \in r.j..Len(r.filteredTasks) :
                 r.filteredTasks[k] \notin r.embeddedTasks}
  IN IF todo = {} \/ ~(r.taskCount < maxTasks)
     THEN [r EXCEPT !.pc = "done", !.outcome = "listing"]
     ELSE [r EXCEPT !.pc = "insert", !.j = Min(todo)]

\* The first loop (index.js:514-532) at index r.i: the next child to fetch,
\* or, past the last child, taskCount = embeddedTasks.size and the second loop.
nextChildMutCountFromZero(r) ==
  IF r.i <= Len(r.children) THEN [r EXCEPT !.pc = "childGet"]
  ELSE insertOrFinish([r EXCEPT !.taskCount = 0, !.j = 1])

nextChild(r) ==
  IF r.i <= Len(r.children) THEN [r EXCEPT !.pc = "childGet"]
  ELSE insertOrFinish([r EXCEPT !.taskCount = Cardinality(r.embeddedTasks),
                                !.j = 1])

\* index.js:506-507: getBlock(uuid) returns; the children's uuids are kept.
GetBlock(p) ==
  /\ inv[p].pc = "getBlock"
  /\ Commit(p, nextChild([inv[p] EXCEPT
                 !.children = [k \in 1..Len(blockChildren) |->
                                 blockChildren[k].id],
                 !.i = 1]))
  /\ UNCHANGED <<storeVars, clsVars, walkVars, settingVars, blockContent,
                 blockChildren, failures, overlapped>>

\* index.js:516-531: getBlock(children[i]) returns. A child that another
\* invocation removed comes back null and child.content throws.
ChildGet(p) ==
  /\ inv[p].pc = "childGet"
  /\ LET r == inv[p]
         id == r.children[r.i]
         found == {k \in 1..Len(blockChildren) : blockChildren[k].id = id}
         ref == blockChildren[Min(found)].ref
     IN Commit(p,
          IF found = {}
          THEN [r EXCEPT !.pc = "thrown", !.outcome = "thrown"]
          ELSE IF ref = 0
          THEN nextChild([r EXCEPT !.i = r.i + 1])
          ELSE IF ref \in SeqToSet(r.filteredTasks)
          THEN nextChild([r EXCEPT !.embeddedTasks = @ \cup {ref},
                                   !.i = r.i + 1])
          ELSE [r EXCEPT !.pc = "childRemove"])
  /\ UNCHANGED <<storeVars, clsVars, walkVars, settingVars, blockContent,
                 blockChildren, failures, overlapped>>

\* index.js:527: removeBlock(children[i]) returns.
ChildRemove(p) ==
  /\ inv[p].pc = "childRemove"
  /\ LET r == inv[p]
         keep(c) == c.id # r.children[r.i]
     IN /\ blockChildren' = SelectSeq(blockChildren, keep)
        /\ Commit(p, nextChild([r EXCEPT !.i = r.i + 1]))
  /\ UNCHANGED <<storeVars, clsVars, walkVars, settingVars, blockContent,
                 failures, overlapped>>

\* The uuid the host gives a new block: one that no block has and that no
\* invocation holds in its list of children.
freshId ==
  LET used == {blockChildren[k].id : k \in 1..Len(blockChildren)}
                \cup UNION {SeqToSet(inv[o].children) : o \in Invocations}
  IN Min({n \in 1..(Cardinality(used) + 1) : n \notin used})

\* index.js:542-547: insertBlock(uuid, "((task.uuid))") returns.
Insert(p) ==
  /\ inv[p].pc = "insert"
  /\ LET r == inv[p]
         task == r.filteredTasks[r.j]
     IN /\ blockChildren' =
             Append(blockChildren, [id |-> freshId, ref |-> task])
        /\ Commit(p, insertOrFinish([r EXCEPT !.taskCount = r.taskCount + 1,
                                              !.inserted = Append(@, task),
                                              !.j = r.j + 1]))
  /\ UNCHANGED <<storeVars, clsVars, walkVars, settingVars, blockContent,
                 failures, overlapped>>

Next ==
  \E p \in Invocations :
    \/ \E kind \in Kinds, name \in TagNames \cup {""} : Start(p, kind, name)
    \/ Parse(p)
    \/ UpdateBlock(p)
    \/ \E bad \in SUBSET Reads : Query(p, bad)
    \/ GetBlock(p)
    \/ ChildGet(p)
    \/ ChildRemove(p)
    \/ Insert(p)

Spec == Init /\ [][Next]_vars

\* --------------------------------------------------------- SpecSequential
\* The handlers run one at a time: a click is handled only when the handler
\* of the click before has ended (returned or thrown). One invocation record
\* serves them all; the block's directive and children carry over.
ClickKinds == {"reload", "selectTag", "unselectTag"}

StartNext(kind, name) ==
  /\ inv["p"].pc \in {"idle", "done", "thrown"}
  /\ kind \in {"selectTag", "unselectTag"} <=> name \in TagNames
  /\ kind = "selectTag" =>
       Len(parseRendererQuery(blockContent)) < MaxSelected
  /\ inv' = [inv EXCEPT !["p"] =
               [IdleInvocation EXCEPT !.pc = "parse", !.kind = kind,
                                      !.tagName = name]]
  /\ UNCHANGED <<storeVars, clsVars, walkVars, settingVars, blockContent,
                 blockChildren, ui, failures, overlapped>>

NextSequential ==
  \/ \E kind \in ClickKinds, name \in TagNames \cup {""} :
       StartNext(kind, name)
  \/ Parse("p")
  \/ UpdateBlock("p")
  \/ \E bad \in SUBSET Reads : Query("p", bad)
  \/ GetBlock("p")
  \/ ChildGet("p")
  \/ ChildRemove("p")
  \/ Insert("p")

SpecSequential == Init /\ [][NextSequential]_vars

\* ------------------------------------------------ structure, stated apart
\* The notions the claims use, defined from the parent links alone (not from
\* the loops of compareTasks).
RECURSIVE AncSet(_)
AncSet(b) == IF isPage(b) THEN {} ELSE {parentOf[b]} \cup AncSet(parentOf[b])

NearestCommon(x, y) ==
  CHOOSE b \in AncSet(x) \cap AncSet(y) :
    \A c \in AncSet(x) \cap AncSet(y) : c = b \/ c \in AncSet(b)

\* The child of b through which x descends (x itself when x is that child).
ChildToward(b, x) == CHOOSE c \in {x} \cup AncSet(x) : parentOf[c] = b

Nested(x, y) == y \in AncSet(x)

TaskSet == SeqToSet(tasksWithTags)

\* getDependentTaskIDs on the two-element list <<x, y>>.
PairAlone(x, y) == getDependentTaskIDs(<<x, y>>, compareAll(<<x, y>>))

\* ------------------------------------------------------------------- C1
\* C1 as stated: when task x is nested under task y, the returned set holds
\* the nested task x, x is removed from filteredTasks, and the pair alone
\* does not put the ancestor y in the set.
C1_NestedTaskSuppressed ==
  clsPc = "done" =>
    \A x, y \in TaskSet :
      Nested(x, y) =>
        /\ x \in dependentTaskIDs
        /\ x \notin SeqToSet(filteredTasks)
        /\ y \notin PairAlone(x, y)
        /\ y \notin PairAlone(y, x)

\* C1 amended: when task x is nested under task y, whatever the list markers
\* and the input order, the returned set holds the ancestor y (the task that
\* depends on the nested one), y is removed from filteredTasks, and the pair
\* alone puts only y in the set, never the nested task x.
C1_AncestorTaskSuppressed ==
  clsPc = "done" =>
    \A x, y \in TaskSet :
      Nested(x, y) =>
        /\ y \in dependentTaskIDs
        /\ y \notin SeqToSet(filteredTasks)
        /\ PairAlone(x, y) = {y}
        /\ PairAlone(y, x) = {y}


C1_Witness ==
  /\ clsPc = "done"
  /\ \E x, y \in TaskSet :
       /\ Nested(x, y) /\ ordered[x] /\ ~ordered[y]
       /\ y \in dependentTaskIDs
       /\ x \in SeqToSet(filteredTasks)

\* ------------------------------------------------------------------- C2
\* a, b, c descend through three different numbered children of one block,
\* placed in that order in its children list.
NumberedBranches(a, b, c) ==
  \E B \in AncSet(a) \cap AncSet(b) \cap AncSet(c) :
    LET ca == ChildToward(B, a)
        cb == ChildToward(B, b)
        cc == ChildToward(B, c)
    IN /\ ordered[ca] /\ ordered[cb] /\ ordered[cc]
       /\ indexOf(children(B), ca) < indexOf(children(B), cb)
       /\ indexOf(children(B), cb) < indexOf(children(B), cc)

\* C2 as stated: for three such tasks given in any order the returned set is
\* {a, b} and filteredTasks holds only c.
C2_LastOfThreeRemains ==
  (clsPc = "done" /\ Len(tasksWithTags) = 3) =>
    \A a, b, c \in TaskSet :
      NumberedBranches(a, b, c) =>
        /\ dependentTaskIDs = {a, b}
        /\ filteredTasks = <<c>>

\* C2 amended: for three such tasks given in any order the returned set is
\* {b, c}, the tasks that come after another one, and filteredTasks holds
\* only a, the first.
C2_FirstOfThreeRemains ==
  (clsPc = "done" /\ Len(tasksWithTags) = 3) =>
    \A a, b, c \in TaskSet :
      NumberedBranches(a, b, c) =>
        /\ dependentTaskIDs = {b, c}
        /\ filteredTasks = <<a>>

C2_Witness ==
  /\ clsPc = "done"
  /\ Len(tasksWithTags) = 3
  /\ \E a, b, c \in TaskSet :
       /\ NumberedBranches(a, b, c)
       /\ tasksWithTags = <<c, a, b>>
       /\ ~ordered[c]
       /\ filteredTasks = <<a>>

\* ------------------------------------------------------------------- C3
Independent(x, y) ==
  \/ pageId(x) # pageId(y)
  \/ /\ ~Nested(x, y) /\ ~Nested(y, x)
     /\ LET B == NearestCommon(x, y)
        IN ~ordered[ChildToward(B, x)] \/ ~ordered[ChildToward(B, y)]

\* C3: for every pair of distinct tasks of a forest, compareTasks returns 0
\* (and the pair adds no id to the set) exactly when the tasks are on
\* different pages, or neither is an ancestor of the other and one of the
\* two furthest uncommon ancestors is not a numbered-list block.
C3_IndependentIff ==
  clsPc = "done" =>
    \A q \in Pairs(tasksWithTags) :
      LET x == tasksWithTags[q[1]]
          y == tasksWithTags[q[2]]
          ind == Independent(x, y)
      IN /\ (comparisons[q] = 0) <=> ind
         /\ (PairAlone(x, y) = {}) <=> ind

C3_Witness ==
  /\ clsPc = "done"
  /\ \E q \in Pairs(tasksWithTags) :
       LET x == tasksWithTags[q[1]]
           y == tasksWithTags[q[2]]
       IN /\ pageId(x) = pageId(y)
          /\ ~Nested(x, y) /\ ~Nested(y, x)
          /\ ordered[ChildToward(NearestCommon(x, y), x)]
          /\ ~ordered[ChildToward(NearestCommon(x, y), y)]
          /\ ordered[y]
          /\ comparisons[q] = 0
          /\ {x, y} \cap dependentTaskIDs = {}

\* ------------------------------------------------------------------- C4
\* The task at index i was classified as a dependency of the task at index
\* j by the call getDependentTaskIDs made for the two (compareTasks is called
\* with the task of the smaller index first).
ClassifiedDependency(i, j) ==
  IF i < j THEN comparisons[<<i, j>>] < 0
  ELSE comparisons[<<j, i>>] > 0

\* compareTasks(x, y) itself says that x is a dependency of y.
DirectDependencyOf(x, y) == compareTasks(x, y, ancestorsOf(<<x, y>>)) < 0

\* C4: on a forest, if a is classified as a dependency of b and b as a
\* dependency of c then the comparison of a with c classifies a as a
\* dependency of c, so c is in the returned set on account of a alone.
C4_Transitive ==
  clsPc = "done" =>
    \A i, j \in 1..Len(tasksWithTags) :
      (i # j /\ ClassifiedDependency(i, j)) =>
        \A k \in 1..Len(tasksWithTags) :
          (j # k /\ ClassifiedDependency(j, k)) =>
            /\ i # k
            /\ ClassifiedDependency(i, k)
            /\ DirectDependencyOf(tasksWithTags[i], tasksWithTags[k])
            /\ tasksWithTags[k] \in PairAlone(tasksWithTags[i], tasksWithTags[k])
            /\ tasksWithTags[k] \in dependentTaskIDs

C4_Witness ==
  /\ clsPc = "done"
  /\ \E a, b, c \in TaskSet :
       /\ Nested(a, b)
       /\ ~Nested(b, c) /\ ~Nested(c, b)
       /\ DirectDependencyOf(a, b)
       /\ DirectDependencyOf(b, c)
       /\ DirectDependencyOf(a, c)
       /\ dependentTaskIDs = {b, c}

\* ------------------------------------------------------------------- C7
NoDuplicates(s) == \A a, b \in 1..Len(s) : a # b => s[a] # s[b]

\* The parent links reachable from b lead to a page without a cycle and
\* without a missing block.
RECURSIVE LeadsToPage(_, _)
LeadsToPage(b, fuel) ==
  IF b \notin DOMAIN parentOf \/ fuel = 0 THEN FALSE
  ELSE IF parentOf[b] = NoParent THEN TRUE
  ELSE LeadsToPage(parentOf[b], fuel - 1)

\* C7: getAncestors terminates on every store: from a block whose links
\* lead to a page it returns the parent chain, nearest first, the page last;
\* and it never goes round a cycle: a walk in progress has visited no block
\* twice (a cycle is met by an abort, not by another lookup).
C7_WalkTerminates ==
  /\ (walkPc = "returned" /\ LeadsToPage(walkTask, MaxWalkNodes)) =>
       /\ walkAncestors = getAncestors(walkTask)
       /\ (walkAncestors # <<>> =>
             parentOf[walkAncestors[Len(walkAncestors)]] = NoParent)
  /\ walkPc \in {"loop", "returned", "thrown"} =>
       /\ NoDuplicates(walkAncestors)
       /\ walkTask \notin SeqToSet(walkAncestors)

\* --------------------------------------------- the handlers' claims (Spec)
\* getTagsAndTasks has returned to invocation r's handler.
QueryReturned(r) == r.tagsAndTasks \notin {"pending", "thrown"}

Renders(r) == r.kind \in {"reload", "selectTag", "unselectTag"}

\* ------------------------------------------------------------------- C5
\* C5: whenever candidateTasks is empty, getTagsAndTasks hands its caller a
\* "no matching tasks" value that the caller's test !tagsAndTasks
\* recognises, and the handler ends in renderFailure.
C5_EmptyCandidatesReported ==
  \A p \in Invocations :
    (QueryReturned(inv[p]) /\ inv[p].tasksWithTags = <<>>) =>
      /\ isFalsy(inv[p].tagsAndTasks)
      /\ inv[p].pc = "done" => inv[p].outcome = "failure"

\* ------------------------------------------------------------------- C6
\* Some doable task has a tag of this name in its path-refs.
Referenced(name) ==
  \E n \in doableTasks, t \in Tags : t.name = name /\ t.id \in pathRefs[n]

\* The name resolves to a tag of the list getTags returned.
Resolves(name, tags) == \E k \in 1..Len(tags) : tags[k].name = name

\* C6 as stated: if the selection contains a name that no doable task
\* references (a name that resolves to no tag included), candidateTasks is
\* empty.
C6_UnreferencedNameEmpties ==
  \A p \in Invocations :
    (/\ QueryReturned(inv[p])
     /\ \E k \in 1..Len(inv[p].selectedTagNames) :
          ~Referenced(inv[p].selectedTagNames[k])) =>
      inv[p].tasksWithTags = <<>>

\* The task is not excluded by the settings.
NotIgnored(t) ==
  /\ \A k \in 1..Len(namespacesToIgnore) :
       pageId(t) \notin getPagesFromNamespace(namespacesToIgnore[k])
  /\ \A k \in 1..Len(tagsToIgnore) :
       \A g \in getPage(tagsToIgnore[k]) : g.id \notin pathRefs[t]

\* C6 amended: a selected name that resolves to no tag of the tag scan is
\* dropped and does not restrict the candidates; a task is a candidate
\* exactly when the settings do not exclude it and it carries the tag of
\* every selected name that does resolve.
C6_ResolvedNamesRestrict ==
  \A p \in Invocations :
    QueryReturned(inv[p]) =>
      LET r == inv[p]
          carriesAll(t) ==
            \A k \in 1..Len(r.selectedTagNames), g \in SeqToSet(r.tags) :
              g.name = r.selectedTagNames[k] => g.id \in pathRefs[t]
          expected(t) == NotIgnored(t) /\ carriesAll(t)
      IN r.tasksWithTags = SelectSeq(r.tasks, expected)

C6_Witness ==
  \E p \in Invocations :
    /\ QueryReturned(inv[p])
    /\ inv[p].selectedTagNames = <<"a", "b">>
    /\ Resolves("a", inv[p].tags)
    /\ ~Resolves("b", inv[p].tags)
    /\ ~Referenced("b")
    /\ Len(inv[p].tasksWithTags) = 2

\* ------------------------------------------------------------------- C8
\* C8: a failure of any store read made during a query (task scan, tag scan,
\* ignored-tag page lookup, ignored-namespace lookup, parent lookup) is
\* absorbed where it occurs: getTagsAndTasks still completes with a result
\* and nothing propagates to the caller.
C8_ReadFailuresAbsorbed ==
  \A p \in Invocations :
    inv[p].failed # {} =>
      /\ QueryReturned(inv[p])
      /\ inv[p].pc # "thrown"

\* ------------------------------------------------------------------- C9
\* C9: at most one invocation of the pipeline is in progress at any time.
C9_OneInvocationAtATime ==
  Cardinality({p \in Invocations : InProgress(inv[p])}) <= 1

\* ------------------------------------------------------------------ C10
Take(s, n) == SubSeq(s, 1, IF n < Len(s) THEN n ELSE Len(s))

embeddedRefs == {blockChildren[k].ref : k \in 1..Len(blockChildren)} \ {0}

\* C10 as stated, for a render that no other invocation overlapped: the
\* tasks surfaced are exactly the first maxTasks elements of filteredTasks,
\* and no more than maxTasks children embed a task.
C10_FirstMaxTasksSurfaced ==
  \A p \in Invocations :
    (/\ Renders(inv[p]) /\ inv[p].pc = "done"
     /\ inv[p].outcome = "listing" /\ ~overlapped) =>
      /\ embeddedRefs = SeqToSet(Take(inv[p].filteredTasks, maxTasks))
      /\ Len(blockChildren) <= maxTasks

\* C10 amended: a render keeps every child that embeds a task of
\* filteredTasks (candidateTasks minus dependentTaskIds), however many they
\* are and wherever the task stands in the list, and then inserts, in
\* candidate order, the first tasks of filteredTasks that it did not find
\* embedded, as many as bring its count of kept and inserted tasks to
\* maxTasks: the cap is applied after dependency filtering and limits the
\* insertions only.
C10_KeepThenFillToCap ==
  \A p \in Invocations :
    (Renders(inv[p]) /\ inv[p].pc \in {"insert", "done"}) =>
      LET r == inv[p]
          free(t) == t \notin r.embeddedTasks
          missing == SelectSeq(r.filteredTasks, free)
          kept == Cardinality(r.embeddedTasks)
          room == IF maxTasks > kept THEN maxTasks - kept ELSE 0
      IN /\ r.embeddedTasks \subseteq SeqToSet(r.filteredTasks)
         /\ r.filteredTasks =
              withoutDependents(r.tasksWithTags,
                getDependentTaskIDs(r.tasksWithTags,
                                    compareAll(r.tasksWithTags)))
         /\ Len(r.inserted) <= room
         /\ r.inserted = Take(missing, Len(r.inserted))
         /\ r.pc = "done" => r.inserted = Take(missing, room)
         /\ (r.pc = "done" /\ ~overlapped) =>
              embeddedRefs = r.embeddedTasks \cup SeqToSet(r.inserted)

C10_Witness ==
  \E p \in Invocations :
    /\ Renders(inv[p]) /\ inv[p].pc = "done" /\ ~overlapped
    /\ Len(inv[p].filteredTasks) = 2
    /\ inv[p].embeddedTasks = {inv[p].filteredTasks[2]}
    /\ inv[p].inserted = <<>>
    /\ embeddedRefs = {inv[p].filteredTasks[2]}

\* ------------------------------------------------------------------ C11
\* C11: no tag of remainingTags has a name that is in selectedTagNames,
\* whether or not the name resolved to a tag and however often it is listed.
C11_RemainingNotSelected ==
  \A p \in Invocations :
    QueryReturned(inv[p]) =>
      \A k \in 1..Len(inv[p].remainingTags) :
        inv[p].remainingTags[k].name \notin SeqToSet(inv[p].selectedTagNames)

\* A name listed twice and resolved, one tag left to offer.
C11_Witness ==
  \E p \in Invocations :
    /\ QueryReturned(inv[p])
    /\ inv[p].selectedTagNames = <<"a", "a">>
    /\ Len(inv[p].selectedTags) = 2
    /\ Len(inv[p].remainingTags) = 1
    /\ inv[p].remainingTags[1].name = "b"

\* ------------------------------------------------------------------ C12
\* Every furthest uncommon ancestor of two tasks of the list stands in the
\* children list of the tasks' nearest common ancestor.
UncommonAncestorsListed ==
  \A x, y \in TaskSet :
    (x # y /\ pageId(x) = pageId(y) /\ ~Nested(x, y) /\ ~Nested(y, x)) =>
      /\ indexOf(children(NearestCommon(x, y)),
                 ChildToward(NearestCommon(x, y), x)) >= 0
      /\ indexOf(children(NearestCommon(x, y)),
                 ChildToward(NearestCommon(x, y), y)) >= 0

\* C12: a non-empty candidateTasks leaves a non-empty filteredTasks, unless
\* some furthest uncommon ancestor is missing from its parent's children
\* list: no pair puts both of its tasks in the set, and some task is put in
\* the set by no pair.
C12_SomeCandidateRemains ==
  (clsPc = "done" /\ tasksWithTags # <<>>) =>
    \/ /\ filteredTasks # <<>>
       /\ \A q \in Pairs(tasksWithTags) :
            Cardinality(pairAdds(tasksWithTags[q[1]], tasksWithTags[q[2]],
                                 comparisons[q])) <= 1
       /\ \E k \in 1..Len(tasksWithTags) :
            \A q \in Pairs(tasksWithTags) :
              tasksWithTags[k] \notin pairAdds(tasksWithTags[q[1]],
                                               tasksWithTags[q[2]],
                                               comparisons[q])
    \/ ~UncommonAncestorsListed

\* Three tasks, two of them suppressed: one as the ancestor of another
\* task, one as a later numbered branch.
C12_Witness ==
  /\ clsPc = "done" /\ UncommonAncestorsListed
  /\ Len(tasksWithTags) = 3
  /\ Len(filteredTasks) = 1
  /\ \E x, y \in dependentTaskIDs :
       /\ x # y
       /\ \E z \in TaskSet : Nested(z, x)
       /\ \A z \in TaskSet : ~Nested(z, y)

\* ------------------------------------------------------------------ C13
\* The selection persisted in the block's directive.
persistedSelection == parseRendererQuery(blockContent)

\* C13: when unselectTag(x) writes the directive (no other invocation having
\* overlapped), the new persisted selection is the old one with one
\* occurrence of x taken out, the other names kept in their order; when x
\* is not in the old selection the persisted selection stays as it was.
C13_UnselectRemovesOnlyX ==
  [][\A p \in Invocations :
       (/\ inv[p].kind = "unselectTag" /\ inv[p].pc = "updateBlock"
        /\ inv'[p].pc = "query" /\ ~overlapped) =>
         LET old == persistedSelection
             new == persistedSelection'
             x == inv[p].tagName
         IN IF x \notin SeqToSet(old) THEN new = old
            ELSE \E k \in 1..Len(old) :
                   /\ old[k] = x
                   /\ new = SubSeq(old, 1, k - 1) \o SubSeq(old, k + 1, Len(old))
    ]_vars

\* ------------------------------------------------------------------ C14
\* The handler of the invocation has rendered and returned.
Completed(r) == r.pc = "done"

\* C14: once two overlapping selectTag invocations for different tags have
\* both completed, the persisted selection holds both tags.
C14_BothSelectionsPersisted ==
  \A p, q \in Invocations :
    (/\ p # q /\ overlapped
     /\ inv[p].kind = "selectTag" /\ inv[q].kind = "selectTag"
     /\ inv[p].tagName # inv[q].tagName
     /\ Completed(inv[p]) /\ Completed(inv[q])) =>
      {inv[p].tagName, inv[q].tagName} \subseteq SeqToSet(persistedSelection)

\* ------------------------------------------------------------------ C15
\* The children of the query block that embed a task reference.
embeddingChildren ==
  {k \in 1..Len(blockChildren) : blockChildren[k].ref # 0}

\* C15: when the handlers run one after the other from a block without
\* children, at most maxTasks children embed a task reference, no two of
\* them the same task, and when a render has ended each embedded task is in
\* that render's filteredTasks.
C15_AtMostMaxTasksEmbedded ==
  /\ Cardinality(embeddingChildren) <= maxTasks
  /\ Cardinality(embeddedRefs) = Cardinality(embeddingChildren)
  /\ \A p \in Invocations :
       (Renders(inv[p]) /\ inv[p].pc = "done") =>
         embeddedRefs \subseteq SeqToSet(inv[p].filteredTasks)

\* The third click at the least (two names were selected, one was taken
\* back): more tasks pass the filter than the cap allows, and maxTasks
\* children embed tasks.
C15_Witness ==
  /\ inv["p"].pc = "done" /\ inv["p"].kind = "unselectTag"
  /\ Len(persistedSelection) = 1
  /\ Len(inv["p"].filteredTasks) > maxTasks
  /\ Cardinality(embeddingChildren) = maxTasks
  /\ inv["p"].embeddedTasks # {}

====
